---- MODULE Spec2Model ----
(***************************************************************************)
(* quickhttp: the port locator (find_available_port, is_port_available)    *)
(* and the timed static server (TimedHTTPServer, run_timed_http_server)    *)
(* of src/quickhttp/http_server.py, and the quickhttp command of           *)
(* src/quickhttp/quickhttp.py that chains them.                            *)
(***************************************************************************)
EXTENDS Integers, Sequences, FiniteSets, TLC

\* ---------------------------------------------------------------- bounds
\* Ports of the model are 1..MaxPort.
MaxPort == 3
\* max_tries arguments are drawn from -1..MaxTriesArg.
MaxTriesArg == 4
\* Connections the environment sends to the server in one run.
MaxConns == 2
\* The server's timeout, in clock ticks, is drawn from 0..MaxTimeout.
MaxTimeout == 2
\* Clock ticks that may pass while requests are being handled.
MaxHandleTicks == 2
\* Direct calls of is_port_available in one run.
MaxChecks == 3

Ports == 1..MaxPort
TriesArgs == (-1)..MaxTriesArg

\* SearchType members (http_server.py:43-44) and one value outside the enum.
SearchTypes == {"sequential", "random"}
SearchTypeArgs == SearchTypes \cup {"bogus"}

VARIABLES
    \* environment: the ports of 127.0.0.1 on which some listener accepts
    occupied,
    \* ---- find_available_port
    fpc,          \* "idle" | "iter" | "probe" | "returned" | "raised" | "check"
    range_min, range_max, max_tries_arg, search_type,   \* the arguments
    max_tries,    \* the local max_tries after line 85
    to_try,       \* the candidate sequence
    idx,          \* candidates consumed by the for loop
    cur,          \* port being probed (<<>> when none)
    psock,        \* number of probing sockets open
    connected,    \* connect_ex(...) == 0 of the probe in flight
    probed,       \* history: <<[port, avail, listener]>> of finished probes
    result,       \* <<port>> once returned
    ferror,       \* exception raised by find_available_port
    everFree,     \* history: a port of [range_min, range_max] was free during the call
    occChanged,   \* history: occupancy changed during the call
    \* ---- run_timed_http_server
    spc,          \* "idle" | "loop" | "wait" | "handle" | "done" | "raised"
    address, port,
    lsock,        \* listening socket: "none" | "bound" | "closed"
    timeout_reached,
    out,          \* typer.echo output, in order
    pending,      \* connections arrived and not yet accepted
    arrived,      \* history: connections that arrived
    handled,      \* history: requests handled to completion
    interruptedAt,\* history: where KeyboardInterrupt was delivered ("" when not)
    serror,       \* exception propagated out of run_timed_http_server
    timeout,      \* self.timeout
    ticks,        \* history: clock ticks since the bind (counted up to MaxTimeout + 1)
    remaining,    \* handle_request's deadline - time() for the wait in progress
    waited,       \* history: ticks passed in the wait in progress
    handleTicks,  \* history: ticks that passed during request handling
    nTimeouts,    \* history: calls of handle_timeout (counted up to 2)
    queue,        \* accept queue: connections in arrival order (pending = Len(queue))
    inflight,     \* connections whose request is being handled
    handledOrder, \* history: connections in the order their handling completed
    \* ---- the quickhttp command
    cpc,          \* "idle" | "port" | "locating" | "announce" | "serve" | "serving" | "raised"
    timeOk,       \* the --time expression is parsable
    time_sec,     \* parse(time): <<seconds>>, or <<>> for None
    portOpt,      \* the --port option as supplied: <<port>>, or <<>> when absent
    cport,        \* the local port after lines 75-81 (<<>> before)
    callKw,       \* history: keyword names passed to run_timed_http_server at line 86
    callPort,     \* history: the port value passed at line 86
    cerror        \* exception propagated out of the command

locVars == <<fpc, range_min, range_max, max_tries_arg, search_type, max_tries,
             to_try, idx, cur, psock, connected, probed, result, ferror,
             everFree, occChanged>>
srvVars == <<spc, address, port, lsock, timeout_reached, out, pending, arrived,
             handled, interruptedAt, serror>>
waitVars == <<timeout, ticks, remaining, waited, handleTicks, nTimeouts, queue,
              inflight, handledOrder>>
cliVars == <<cpc, timeOk, time_sec, portOpt, cport, callKw, callPort, cerror>>
vars == <<occupied, locVars, srvVars, waitVars, cliVars>>

\* ------------------------------------------------------ pure helpers
Min(a, b) == IF a <= b THEN a ELSE b

\* range(a, b): a, a+1, ..., b-1
RangeDescending(a, b) == IF b > a THEN [i \in 1..(b - a) |-> b - i] ELSE <<>>
Range(a, b) == IF b > a THEN [i \in 1..(b - a) |-> a + i - 1] ELSE <<>>

SeqElems(s) == {s[i] : i \in 1..Len(s)}

\* islice(seq, n) for n >= 0: the first n items, or all when there are fewer
IsliceAll(seq, n) == seq
Islice(seq, n) == SubSeq(seq, 1, Min(n, Len(seq)))

\* random.sample(population, k): every ordered selection of k distinct items
RECURSIVE Selections(_, _)
Selections(S, k) ==
    IF k = 0 THEN {<<>>}
    ELSE UNION {{<<x>> \o s : s \in Selections(S \ {x}, k - 1)} : x \in S}

RECURSIVE Words(_, _)
Words(S, k) ==
    IF k = 0 THEN {<<>>}
    ELSE UNION {{<<x>> \o s : s \in Words(S, k - 1)} : x \in S}

SampleWithRepeats(pop, k) == Words(SeqElems(pop), k)
Sample(pop, k) == Selections(SeqElems(pop), k)

\* max_tries = min(max_tries, range_max - range_min + 1)
EffectiveTriesOffByOne(mt, rmin, rmax) == Min(mt, rmax - rmin)
EffectiveTries(mt, rmin, rmax) == Min(mt, rmax - rmin + 1)

\* is_port_available's return value from connect_ex's outcome
\* (conn: the connection succeeded)
IsPortAvailableInverted(conn) == conn
IsPortAvailable(conn) == ~conn

\* The outcomes of lines 88-97: a candidate sequence, or the exception raised.
\* islice rejects a negative stop and random.sample a negative or too large k
\* with ValueError.
ToTryOutcomesLenient(st, rmin, rmax, tries) ==
    IF st = "random"
    THEN IF tries < 0 \/ tries > Len(Range(rmin, rmax + 1))
         THEN {[err |-> "ValueError", seq |-> <<>>]}
         ELSE {[err |-> "", seq |-> s] : s \in Sample(Range(rmin, rmax + 1), tries)}
    ELSE IF tries < 0
         THEN {[err |-> "ValueError", seq |-> <<>>]}
         ELSE {[err |-> "", seq |-> Islice(Range(rmin, rmax + 1), tries)]}
ToTryOutcomes(st, rmin, rmax, tries) ==
    IF st = "sequential"
    THEN IF tries < 0
         THEN {[err |-> "ValueError", seq |-> <<>>]}
         ELSE {[err |-> "", seq |-> Islice(Range(rmin, rmax + 1), tries)]}
    ELSE IF st = "random"
    THEN IF tries < 0 \/ tries > Len(Range(rmin, rmax + 1))
         THEN {[err |-> "ValueError", seq |-> <<>>]}
         ELSE {[err |-> "", seq |-> s] : s \in Sample(Range(rmin, rmax + 1), tries)}
    ELSE {[err |-> "InvalidSearchTypeError", seq |-> <<>>]}

SomeFree(rmin, rmax, occ) == \E p \in rmin..rmax : p \notin occ

\* ------------------------------------------------------ initial states
LocIdle ==
    /\ fpc = "idle"
    /\ range_min = 0 /\ range_max = 0 /\ max_tries_arg = 0 /\ search_type = ""
    /\ max_tries = 0 /\ to_try = <<>> /\ idx = 0 /\ cur = <<>> /\ psock = 0
    /\ connected = FALSE /\ probed = <<>> /\ result = <<>> /\ ferror = ""
    /\ everFree = FALSE /\ occChanged = FALSE

SrvIdle ==
    /\ spc = "idle"
    /\ address = "" /\ port = 0 /\ lsock = "none" /\ timeout_reached = FALSE
    /\ out = <<>> /\ pending = 0 /\ arrived = 0 /\ handled = 0
    /\ interruptedAt = "" /\ serror = ""
    /\ timeout = 0 /\ ticks = 0 /\ remaining = 0 /\ waited = 0
    /\ handleTicks = 0 /\ nTimeouts = 0
    /\ queue = <<>> /\ inflight = {} /\ handledOrder = <<>>

CliIdle ==
    /\ cpc = "idle"
    /\ timeOk = FALSE /\ time_sec = <<>> /\ portOpt = <<>> /\ cport = <<>>
    /\ callKw = {} /\ callPort = <<>> /\ cerror = ""

Init ==
    /\ occupied \in SUBSET Ports
    /\ LocIdle
    /\ SrvIdle
    /\ CliIdle

\* ------------------------------------------------ find_available_port
\* Lines 85-97: clamp max_tries, build to_try or raise.
FindBody ==
    /\ fpc = "idle"
    /\ \E rmin \in Ports, rmax \in Ports, mt \in TriesArgs, st \in SearchTypeArgs :
         LET tries == EffectiveTries(mt, rmin, rmax) IN
         \E o \in ToTryOutcomes(st, rmin, rmax, tries) :
            /\ range_min' = rmin /\ range_max' = rmax
            /\ max_tries_arg' = mt /\ search_type' = st
            /\ max_tries' = tries
            /\ to_try' = o.seq
            /\ ferror' = o.err
            /\ fpc' = IF o.err = "" THEN "iter" ELSE "raised"
            /\ everFree' = SomeFree(rmin, rmax, occupied)
    /\ UNCHANGED <<occupied, idx, cur, psock, connected, probed, result, occChanged>>

\* find_available_port called by a caller of the library, with any arguments.
FindCall ==
    /\ FindBody
    /\ UNCHANGED <<srvVars, waitVars, cliVars>>

\* Lines 99-100 and 27-28: the loop takes the next candidate and
\* is_port_available opens a socket and tries to connect to it.
ProbeConnect ==
    /\ fpc = "iter"
    /\ idx < Len(to_try)
    /\ idx' = idx + 1
    /\ cur' = <<to_try[idx + 1]>>
    /\ psock' = psock + 1
    /\ connected' = (to_try[idx + 1] \in occupied)
    /\ fpc' = "probe"
    /\ UNCHANGED <<occupied, range_min, range_max, max_tries_arg, search_type,
                   max_tries, to_try, probed, result, ferror, everFree, occChanged>>
    /\ UNCHANGED <<srvVars, waitVars, cliVars>>

\* Lines 27-31 and 100-101: the probing socket is closed on the way out of
\* is_port_available; this variant of the loop has no early return: it goes
\* on to the next candidate after a successful check.
ProbeReturnKeepGoing ==
    /\ fpc = "probe"
    /\ psock' = psock - 1
    /\ probed' = Append(probed, [port |-> cur[1], avail |-> IsPortAvailable(connected),
                                  listener |-> connected])
    /\ cur' = <<>>
    /\ connected' = FALSE
    /\ IF IsPortAvailable(connected) /\ idx = Len(to_try)
       THEN fpc' = "returned" /\ result' = cur
       ELSE fpc' = "iter" /\ UNCHANGED result
    /\ UNCHANGED <<occupied, range_min, range_max, max_tries_arg, search_type,
                   max_tries, to_try, idx, ferror, everFree, occChanged>>
    /\ UNCHANGED <<srvVars, waitVars, cliVars>>

\* Lines 27-31 and 100-101: the probing socket is closed on the way out of
\* is_port_available; the loop returns the port when the check is true.
ProbeReturn ==
    /\ fpc = "probe"
    /\ psock' = psock - 1
    /\ probed' = Append(probed, [port |-> cur[1], avail |-> IsPortAvailable(connected),
                                  listener |-> connected])
    /\ cur' = <<>>
    /\ connected' = FALSE
    /\ IF IsPortAvailable(connected)
       THEN fpc' = "returned" /\ result' = cur
       ELSE fpc' = "iter" /\ UNCHANGED result
    /\ UNCHANGED <<occupied, range_min, range_max, max_tries_arg, search_type,
                   max_tries, to_try, idx, ferror, everFree, occChanged>>
    /\ UNCHANGED <<srvVars, waitVars, cliVars>>

\* Lines 103-106: the candidates are exhausted.
Exhausted ==
    /\ fpc = "iter"
    /\ idx = Len(to_try)
    /\ fpc' = "raised"
    /\ ferror' = "NoAvailablePortFoundError"
    /\ UNCHANGED <<occupied, range_min, range_max, max_tries_arg, search_type,
                   max_tries, to_try, idx, cur, psock, connected, probed, result,
                   everFree, occChanged>>
    /\ UNCHANGED <<srvVars, waitVars, cliVars>>

\* Environment: another process starts or stops listening on a port while
\* find_available_port runs.
EnvListen ==
    /\ fpc \in {"iter", "probe", "check"}
    /\ \E p \in Ports \ occupied :
         /\ occupied' = occupied \cup {p}
         /\ everFree' = (everFree \/ SomeFree(range_min, range_max, occupied \cup {p}))
    /\ occChanged' = TRUE
    /\ UNCHANGED <<fpc, range_min, range_max, max_tries_arg, search_type, max_tries,
                   to_try, idx, cur, psock, connected, probed, result, ferror>>
    /\ UNCHANGED <<srvVars, waitVars, cliVars>>

EnvRelease ==
    /\ fpc \in {"iter", "probe", "check"}
    /\ \E p \in occupied :
         /\ occupied' = occupied \ {p}
         /\ everFree' = (everFree \/ SomeFree(range_min, range_max, occupied \ {p}))
    /\ occChanged' = TRUE
    /\ UNCHANGED <<fpc, range_min, range_max, max_tries_arg, search_type, max_tries,
                   to_try, idx, cur, psock, connected, probed, result, ferror>>
    /\ UNCHANGED <<srvVars, waitVars, cliVars>>

NextLocator ==
    \/ FindCall
    \/ ProbeConnect
    \/ ProbeReturn
    \/ Exhausted
    \/ EnvListen
    \/ EnvRelease

SpecLocator == Init /\ [][NextLocator]_vars

\* ------------------------------------ is_port_available, called directly
\* Lines 27-28: a caller checks a port; the probing socket is opened and
\* connect_ex tries to connect.
CheckConnect ==
    /\ fpc = "idle"
    /\ Len(probed) < MaxChecks
    /\ \E p \in Ports :
         /\ cur' = <<p>>
         /\ connected' = (p \in occupied)
    /\ psock' = psock + 1
    /\ fpc' = "check"
    /\ UNCHANGED <<occupied, range_min, range_max, max_tries_arg, search_type,
                   max_tries, to_try, idx, probed, result, ferror, everFree, occChanged>>
    /\ UNCHANGED <<srvVars, waitVars, cliVars>>

\* Lines 27-31: the with block closes the probing socket and the check
\* returns.
CheckReturn ==
    /\ fpc = "check"
    /\ psock' = psock - 1
    /\ probed' = Append(probed, [port |-> cur[1], avail |-> IsPortAvailable(connected),
                                  listener |-> connected])
    /\ cur' = <<>>
    /\ connected' = FALSE
    /\ fpc' = "idle"
    /\ UNCHANGED <<occupied, range_min, range_max, max_tries_arg, search_type,
                   max_tries, to_try, idx, result, ferror, everFree, occChanged>>
    /\ UNCHANGED <<srvVars, waitVars, cliVars>>

NextProbe ==
    \/ CheckConnect
    \/ CheckReturn
    \/ EnvListen
    \/ EnvRelease

SpecProbe == Init /\ [][NextProbe]_vars

\* ---------------------------------------------- run_timed_http_server
Addresses == {"0.0.0.0", "not-an-address"}
Timeouts == 0..MaxTimeout
TimeoutMsg == "Timeout reached."
InterruptMsg == " KeyboardInterrupt received."

\* HTTPServer.__init__ binds and listens on (address, port); it fails with
\* OSError when the address is invalid or another listener holds the port.
BindSucceedsAlways(addr, p, occ) == TRUE
BindSucceeds(addr, p, occ) == addr = "0.0.0.0" /\ p \notin occ

\* handle_timeout: the value timeout_reached gets
HandleTimeoutKeepsFlag == timeout_reached
HandleTimeout == TRUE

\* The while condition of line 146
LoopConditionIgnoresFlag == TRUE
LoopCondition == ~timeout_reached

\* The listening socket after the with statement's exit (server_close)
ServerCloseLeaks == lsock
ServerClose == "closed"

\* Lines 140-144, bind succeeds: the server is constructed with its timeout,
\* timeout_reached False, and the with block is entered.
ServerBind ==
    /\ spc = "idle"
    /\ \E a \in Addresses, p \in Ports :
         /\ BindSucceeds(a, p, occupied)
         /\ address' = a /\ port' = p
    /\ \E t \in Timeouts : timeout' = t
    /\ timeout_reached' = FALSE
    /\ lsock' = "bound"
    /\ spc' = "loop"
    /\ UNCHANGED <<out, pending, arrived, handled, interruptedAt, serror>>
    /\ UNCHANGED <<ticks, remaining, waited, handleTicks, nTimeouts, queue,
                   inflight, handledOrder>>
    /\ UNCHANGED <<occupied, locVars, cliVars>>

\* A variant that swallows the OSError of a failed bind and leaves the caller
\* free to construct the server again.
ServerBindFailRetries ==
    /\ spc = "idle"
    /\ \E a \in Addresses, p \in Ports :
         /\ ~BindSucceeds(a, p, occupied)
         /\ address' = a /\ port' = p
    /\ \E t \in Timeouts : timeout' = t
    /\ lsock' = "none"
    /\ serror' = "OSError"
    /\ spc' = "idle"
    /\ UNCHANGED <<timeout_reached, out, pending, arrived, handled, interruptedAt>>
    /\ UNCHANGED <<ticks, remaining, waited, handleTicks, nTimeouts, queue,
                   inflight, handledOrder>>
    /\ UNCHANGED <<occupied, locVars, cliVars>>

\* Lines 142-144, bind fails: the constructor releases the socket and the
\* OSError propagates to the caller.
ServerBindFail ==
    /\ spc = "idle"
    /\ \E a \in Addresses, p \in Ports :
         /\ ~BindSucceeds(a, p, occupied)
         /\ address' = a /\ port' = p
    /\ \E t \in Timeouts : timeout' = t
    /\ lsock' = ServerClose
    /\ serror' = "OSError"
    /\ spc' = "raised"
    /\ UNCHANGED <<timeout_reached, out, pending, arrived, handled, interruptedAt>>
    /\ UNCHANGED <<ticks, remaining, waited, handleTicks, nTimeouts, queue,
                   inflight, handledOrder>>
    /\ UNCHANGED <<occupied, locVars, cliVars>>

\* A variant of handle_request that computes its deadline once, in the first
\* wait: a cap on the total running time.
LoopEnterKeepsDeadline ==
    /\ spc = "loop"
    /\ LoopCondition
    /\ spc' = "wait"
    /\ remaining' = IF handled = 0 THEN timeout ELSE remaining
    /\ waited' = 0
    /\ UNCHANGED <<address, port, lsock, timeout_reached, out, pending, arrived,
                   handled, interruptedAt, serror>>
    /\ UNCHANGED <<timeout, ticks, handleTicks, nTimeouts, queue, inflight, handledOrder>>
    /\ UNCHANGED <<occupied, locVars, cliVars>>

\* Lines 146-147: the flag is false, handle_request starts a wait whose
\* deadline is timeout from now.
LoopEnter ==
    /\ spc = "loop"
    /\ LoopCondition
    /\ spc' = "wait"
    /\ remaining' = timeout
    /\ waited' = 0
    /\ UNCHANGED <<address, port, lsock, timeout_reached, out, pending, arrived,
                   handled, interruptedAt, serror>>
    /\ UNCHANGED <<timeout, ticks, handleTicks, nTimeouts, queue, inflight, handledOrder>>
    /\ UNCHANGED <<occupied, locVars, cliVars>>

\* Lines 146, 148 and the with exit: the flag is true, the loop ends, the
\* timeout message is echoed and the socket is closed.
LoopExit ==
    /\ spc = "loop"
    /\ ~LoopCondition
    /\ out' = Append(out, TimeoutMsg)
    /\ lsock' = ServerClose
    /\ spc' = "done"
    /\ UNCHANGED <<address, port, timeout_reached, pending, arrived, handled,
                   interruptedAt, serror>>
    /\ UNCHANGED waitVars
    /\ UNCHANGED <<occupied, locVars, cliVars>>

\* Environment: a client connects to the listening socket.
ConnArrive ==
    /\ lsock = "bound"
    /\ arrived < MaxConns
    /\ pending' = pending + 1
    /\ arrived' = arrived + 1
    /\ queue' = Append(queue, arrived + 1)
    /\ UNCHANGED <<spc, address, port, lsock, timeout_reached, out, handled,
                   interruptedAt, serror>>
    /\ UNCHANGED <<timeout, ticks, remaining, waited, handleTicks, nTimeouts,
                   inflight, handledOrder>>
    /\ UNCHANGED <<occupied, locVars, cliVars>>

\* Environment: time passes while handle_request waits with no connection
\* ready and its deadline ahead.
TickWait ==
    /\ spc = "wait"
    /\ pending = 0
    /\ remaining > 0
    /\ remaining' = remaining - 1
    /\ waited' = waited + 1
    /\ ticks' = IF ticks <= MaxTimeout THEN ticks + 1 ELSE ticks
    /\ UNCHANGED srvVars
    /\ UNCHANGED <<timeout, handleTicks, nTimeouts, queue, inflight, handledOrder>>
    /\ UNCHANGED <<occupied, locVars, cliVars>>

\* Environment: time passes while a request is being handled.
TickHandle ==
    /\ spc = "handle"
    /\ handleTicks < MaxHandleTicks
    /\ remaining' = remaining - 1
    /\ ticks' = IF ticks <= MaxTimeout THEN ticks + 1 ELSE ticks
    /\ handleTicks' = handleTicks + 1
    /\ UNCHANGED srvVars
    /\ UNCHANGED <<timeout, waited, nTimeouts, queue, inflight, handledOrder>>
    /\ UNCHANGED <<occupied, locVars, cliVars>>

\* A threading variant: the accepted connection is handed to a worker and
\* handle_request returns at once.
AcceptThreaded ==
    /\ spc = "wait"
    /\ pending > 0
    /\ pending' = pending - 1
    /\ queue' = Tail(queue)
    /\ inflight' = inflight \cup {Head(queue)}
    /\ spc' = "loop"
    /\ UNCHANGED <<address, port, lsock, timeout_reached, out, arrived, handled,
                   interruptedAt, serror>>
    /\ UNCHANGED <<timeout, ticks, remaining, waited, handleTicks, nTimeouts,
                   handledOrder>>
    /\ UNCHANGED <<occupied, locVars, cliVars>>

\* Line 147: the wait ends with a connection, which is accepted: the oldest
\* one of the accept queue.
Accept ==
    /\ spc = "wait"
    /\ pending > 0
    /\ pending' = pending - 1
    /\ queue' = Tail(queue)
    /\ inflight' = inflight \cup {Head(queue)}
    /\ spc' = "handle"
    /\ UNCHANGED <<address, port, lsock, timeout_reached, out, arrived, handled,
                   interruptedAt, serror>>
    /\ UNCHANGED <<timeout, ticks, remaining, waited, handleTicks, nTimeouts,
                   handledOrder>>
    /\ UNCHANGED <<occupied, locVars, cliVars>>

\* Line 147: the request is handled to completion and handle_request returns.
HandleDone ==
    /\ spc = "handle"
    /\ handled' = handled + 1
    /\ \E c \in inflight :
         /\ inflight' = inflight \ {c}
         /\ handledOrder' = Append(handledOrder, c)
    /\ spc' = "loop"
    /\ UNCHANGED <<address, port, lsock, timeout_reached, out, pending, arrived,
                   interruptedAt, serror>>
    /\ UNCHANGED <<timeout, ticks, remaining, waited, handleTicks, nTimeouts, queue>>
    /\ UNCHANGED <<occupied, locVars, cliVars>>

\* Line 147 and the with exit: handling raises something that is not an
\* Exception and not KeyboardInterrupt; the request is shut down, the
\* exception leaves the try statement uncaught, the with statement closes the
\* socket and the exception propagates.
HandleRaise ==
    /\ spc = "handle"
    /\ lsock' = ServerClose
    /\ serror' = "BaseException"
    /\ spc' = "raised"
    /\ inflight' = {}
    /\ UNCHANGED <<address, port, timeout_reached, out, pending, arrived, handled,
                   interruptedAt>>
    /\ UNCHANGED <<timeout, ticks, remaining, waited, handleTicks, nTimeouts, queue,
                   handledOrder>>
    /\ UNCHANGED <<occupied, locVars, cliVars>>

\* Lines 124-126 and 147: the wait's deadline passes with no connection;
\* handle_timeout runs and handle_request returns.
WaitTimeout ==
    /\ spc = "wait"
    /\ pending = 0
    /\ remaining <= 0
    /\ timeout_reached' = HandleTimeout
    /\ nTimeouts' = IF nTimeouts < 2 THEN nTimeouts + 1 ELSE nTimeouts
    /\ spc' = "loop"
    /\ UNCHANGED <<address, port, lsock, out, pending, arrived, handled,
                   interruptedAt, serror>>
    /\ UNCHANGED <<timeout, ticks, remaining, waited, handleTicks, queue, inflight,
                   handledOrder>>
    /\ UNCHANGED <<occupied, locVars, cliVars>>

\* KeyboardInterrupt is raised inside the try statement and propagates:
\* this variant has no except clause for it.
InterruptUncaught ==
    /\ spc \in {"loop", "wait", "handle"}
    /\ interruptedAt' = spc
    /\ lsock' = ServerClose
    /\ serror' = "KeyboardInterrupt"
    /\ spc' = "raised"
    /\ inflight' = {}
    /\ UNCHANGED <<address, port, timeout_reached, out, pending, arrived, handled>>
    /\ UNCHANGED <<timeout, ticks, remaining, waited, handleTicks, nTimeouts, queue,
                   handledOrder>>
    /\ UNCHANGED <<occupied, locVars, cliVars>>

\* A variant whose except clause sits inside the loop: the message is echoed,
\* the socket is closed and the loop goes on.
InterruptResumes ==
    /\ spc \in {"loop", "wait", "handle"}
    /\ interruptedAt' = spc
    /\ out' = Append(out, InterruptMsg)
    /\ lsock' = ServerClose
    /\ spc' = "loop"
    /\ inflight' = {}
    /\ UNCHANGED <<address, port, timeout_reached, pending, arrived, handled, serror>>
    /\ UNCHANGED <<timeout, ticks, remaining, waited, handleTicks, nTimeouts, queue,
                   handledOrder>>
    /\ UNCHANGED <<occupied, locVars, cliVars>>

\* Lines 145-150 and the with exit: KeyboardInterrupt is raised inside the
\* try statement (at the loop test, in the wait or while handling, where the
\* request is shut down), the except clause echoes the interrupt message, the
\* socket is closed and the function returns.
Interrupt ==
    /\ spc \in {"loop", "wait", "handle"}
    /\ interruptedAt' = spc
    /\ out' = Append(out, InterruptMsg)
    /\ lsock' = ServerClose
    /\ spc' = "done"
    /\ inflight' = {}
    /\ UNCHANGED <<address, port, timeout_reached, pending, arrived, handled, serror>>
    /\ UNCHANGED <<timeout, ticks, remaining, waited, handleTicks, nTimeouts, queue,
                   handledOrder>>
    /\ UNCHANGED <<occupied, locVars, cliVars>>

NextServer ==
    \/ ServerBind
    \/ ServerBindFail
    \/ LoopEnter
    \/ LoopExit
    \/ ConnArrive
    \/ TickWait
    \/ TickHandle
    \/ Accept
    \/ HandleDone
    \/ HandleRaise
    \/ WaitTimeout
    \/ Interrupt

SpecServer == Init /\ [][NextServer]_vars

\* The interpreter keeps executing the serve loop: every step of the program
\* that is enabled is eventually taken, and time passes while the server
\* waits.  Clients, interrupts and failures are the environment's and are not
\* forced.
FairSpecServer ==
    /\ SpecServer
    /\ WF_vars(TickWait)
    /\ WF_vars(LoopEnter)
    /\ WF_vars(LoopExit)
    /\ WF_vars(Accept)
    /\ WF_vars(HandleDone)
    /\ WF_vars(WaitTimeout)

\* ------------------------------------------------ the quickhttp command
\* The command of src/quickhttp/quickhttp.py.  The names it imports resolve
\* to the definitions of http_server.py.
StartMsg == "Starting http.server"
ClosedMsg == "Server closed."
PortOpts == {<<>>} \cup {<<p>> : p \in 0..MaxPort}

\* Line 75, `if not port`: None and 0 are both falsy.
PortIsTruthy(opt) == opt # <<>> /\ opt[1] # 0

\* Lines 129-131: the parameters of run_timed_http_server, none with a default.
SignatureParams == {"address", "port", "directory", "timeout"}
\* Line 86: the keyword arguments the command passes.
CallKeywords == {"port", "directory", "time"}
\* A call binds when every keyword is a parameter and every parameter is given.
CallBinds(kw) == kw \subseteq SignatureParams /\ SignatureParams \subseteq kw

\* Lines 29-74: the command is invoked and the time expression is parsed
\* (pytimeparse returns None for an expression it cannot parse).
CliInvoke ==
    /\ cpc = "idle"
    /\ \E ok \in BOOLEAN, t \in Timeouts, opt \in PortOpts :
         /\ timeOk' = ok
         /\ time_sec' = IF ok THEN <<t>> ELSE <<>>
         /\ portOpt' = opt
         /\ cport' = opt
    /\ cpc' = "port"
    /\ UNCHANGED <<callKw, callPort, cerror>>
    /\ UNCHANGED <<occupied, locVars, srvVars, waitVars>>

\* Line 75, port truthy: the port locator is skipped.
CliUsePort ==
    /\ cpc = "port"
    /\ PortIsTruthy(cport)
    /\ cpc' = "announce"
    /\ UNCHANGED <<timeOk, time_sec, portOpt, cport, callKw, callPort, cerror>>
    /\ UNCHANGED <<occupied, locVars, srvVars, waitVars>>

\* Lines 75-81, port falsy: find_available_port is called with the range,
\* max_tries and search type options (typer admits only SearchType members).
CliLocate ==
    /\ cpc = "port"
    /\ ~PortIsTruthy(cport)
    /\ FindBody
    /\ search_type' \in SearchTypes
    /\ cpc' = "locating"
    /\ UNCHANGED <<timeOk, time_sec, portOpt, cport, callKw, callPort, cerror>>
    /\ UNCHANGED <<srvVars, waitVars>>

\* Line 76: find_available_port returned; its result is the port.
CliPortFound ==
    /\ cpc = "locating"
    /\ fpc = "returned"
    /\ cport' = result
    /\ cpc' = "announce"
    /\ UNCHANGED <<timeOk, time_sec, portOpt, callKw, callPort, cerror>>
    /\ UNCHANGED <<occupied, locVars, srvVars, waitVars>>

\* Line 76: find_available_port raised; the exception leaves the command.
CliLocateFail ==
    /\ cpc = "locating"
    /\ fpc = "raised"
    /\ cerror' = ferror
    /\ cpc' = "raised"
    /\ UNCHANGED <<timeOk, time_sec, portOpt, cport, callKw, callPort>>
    /\ UNCHANGED <<occupied, locVars, srvVars, waitVars>>

\* Lines 82-85: the startup message; timedelta(seconds=None) raises TypeError
\* when the time expression was not parsable.
CliAnnounce ==
    /\ cpc = "announce"
    /\ IF time_sec = <<>>
       THEN /\ cerror' = "TypeError"
            /\ cpc' = "raised"
            /\ UNCHANGED out
       ELSE /\ out' = Append(out, StartMsg)
            /\ cpc' = "serve"
            /\ UNCHANGED cerror
    /\ UNCHANGED <<timeOk, time_sec, portOpt, cport, callKw, callPort>>
    /\ UNCHANGED <<spc, address, port, lsock, timeout_reached, pending, arrived,
                   handled, interruptedAt, serror>>
    /\ UNCHANGED <<occupied, locVars, waitVars>>

\* Line 86: run_timed_http_server(port=..., directory=..., time=...).  The
\* call raises TypeError unless its keywords bind to the parameters.
CliServe ==
    /\ cpc = "serve"
    /\ callKw' = CallKeywords
    /\ callPort' = cport
    /\ IF CallBinds(CallKeywords)
       THEN cpc' = "serving" /\ UNCHANGED cerror
       ELSE cpc' = "raised" /\ cerror' = "TypeError"
    /\ UNCHANGED <<timeOk, time_sec, portOpt, cport>>
    /\ UNCHANGED <<occupied, locVars, srvVars, waitVars>>

\* Environment: another process starts listening on a port after the port
\* was chosen and before the server is started.
EnvTakesPort ==
    /\ cpc \in {"announce", "serve"}
    /\ \E p \in Ports \ occupied : occupied' = occupied \cup {p}
    /\ UNCHANGED <<locVars, srvVars, waitVars, cliVars>>

\* The steps of run_timed_http_server and line 87 are not among the steps of
\* the command: line 86 never enters the function.
NextCli ==
    \/ CliInvoke
    \/ CliUsePort
    \/ CliLocate
    \/ ProbeConnect
    \/ ProbeReturn
    \/ Exhausted
    \/ EnvListen
    \/ EnvRelease
    \/ CliPortFound
    \/ CliLocateFail
    \/ CliAnnounce
    \/ CliServe
    \/ EnvTakesPort

SpecCli == Init /\ [][NextCli]_vars


\* Lifecycle state of the timed server
Life ==
    IF spc = "idle" THEN "Idle"
    ELSE IF lsock = "bound" THEN "Listening"
    ELSE "Closed"

\* =================================================================
\* Properties of find_available_port (checked under SpecLocator)
\* =================================================================
RangeSize == range_max - range_min + 1
ValidCall ==
    /\ fpc # "idle"
    /\ search_type \in SearchTypes
    /\ range_min <= range_max
    /\ max_tries_arg >= 1
Finished == fpc \in {"returned", "raised"}
\* Ports probed so far, the probe in flight included
ProbedPorts == [i \in 1..Len(probed) |-> probed[i].port] \o cur

\* C1: when every port of [range_min, range_max] stays occupied for the whole
\* call (min <= max, max_tries >= 1, either strategy), the call never returns
\* a port and ends with NoAvailablePortFoundError after exactly
\* min(max_tries, max - min + 1) probes.
C1_AllOccupiedFails ==
    (ValidCall /\ ~everFree) =>
        /\ result = <<>>
        /\ fpc # "returned"
        /\ Finished =>
              /\ ferror = "NoAvailablePortFoundError"
              /\ Len(probed) = Min(max_tries_arg, RangeSize)
              /\ \A i \in 1..Len(probed) : ~probed[i].avail

C1_Witness ==
    /\ ValidCall /\ ~everFree /\ Finished
    /\ search_type = "random"
    /\ max_tries_arg > RangeSize
    /\ Len(probed) = 3
    /\ ferror = "NoAvailablePortFoundError"

\* C2: with the sequential strategy the i-th port probed is range_min + i - 1,
\* whatever the occupancy of the ports: the first probe is range_min and each
\* later probe is one more than the previous one.
C2_SequentialAscending ==
    search_type = "sequential" =>
        \A i \in 1..Len(ProbedPorts) : ProbedPorts[i] = range_min + i - 1

C2_Witness ==
    /\ search_type = "sequential"
    /\ Len(probed) = 3
    /\ occChanged
    /\ probed[3].avail

\* C3: with the random strategy no port is probed twice within one call and
\* every probed port lies in [range_min, range_max], for every sample.
C3_RandomDistinctInRange ==
    search_type = "random" =>
        /\ \A i, j \in 1..Len(ProbedPorts) : i # j => ProbedPorts[i] # ProbedPorts[j]
        /\ \A i \in 1..Len(ProbedPorts) : ProbedPorts[i] \in range_min..range_max

C3_Witness ==
    /\ search_type = "random"
    /\ Len(probed) = 3
    /\ probed[1].port > probed[2].port
    /\ occChanged

\* C4: for min <= max and max_tries >= 1, at every point of a call the number
\* of probes started so far is at most min(max_tries, max - min + 1), for both
\* strategies and whether or not a free port exists.
C4_ProbeBound ==
    ValidCall =>
        /\ Len(ProbedPorts) <= Min(max_tries_arg, RangeSize)
        /\ idx = Len(ProbedPorts)

C4_Witness ==
    /\ ValidCall /\ Finished
    /\ max_tries_arg < RangeSize
    /\ Len(probed) = max_tries_arg
    /\ Len(probed) >= 2
    /\ range_max \notin occupied
    /\ ~occChanged
    /\ ferror = "NoAvailablePortFoundError"

\* C5: find_available_port returns the first candidate whose availability
\* check returns true and probes nothing after it: every earlier probe found
\* its port occupied, the returned port is the last port probed, and a call
\* whose last finished check was true has returned.
C5_State ==
    /\ \A i \in 1..(Len(probed) - 1) : ~probed[i].avail
    /\ (Len(probed) >= 1 /\ probed[Len(probed)].avail) => fpc = "returned"
    /\ fpc = "returned" =>
          /\ Len(probed) >= 1
          /\ probed[Len(probed)].avail
          /\ result = <<probed[Len(probed)].port>>
          /\ probed[Len(probed)].port = to_try[Len(probed)]
          /\ cur = <<>>
          /\ psock = 0
    /\ result # <<>> => fpc = "returned"

C5_FirstAvailableReturned ==
    /\ []C5_State
    /\ [][fpc = "returned" => UNCHANGED <<fpc, probed, idx, cur, psock, result>>]_vars

C5_Witness ==
    /\ fpc = "returned"
    /\ Len(probed) = 2
    /\ Len(to_try) > 2
    /\ to_try[3] \notin occupied

\* C6: with a search_type outside {sequential, random} the call fails with
\* InvalidSearchTypeError and has made no probe, for every range and
\* max_tries.
C6_InvalidSearchType ==
    (fpc # "idle" /\ search_type \notin SearchTypes) =>
        /\ fpc = "raised"
        /\ ferror = "InvalidSearchTypeError"
        /\ ProbedPorts = <<>>
        /\ idx = 0
        /\ psock = 0
        /\ result = <<>>

C6_Witness ==
    /\ fpc = "raised"
    /\ search_type = "bogus"
    /\ ferror = "InvalidSearchTypeError"
    /\ max_tries_arg >= 1
    /\ range_min < range_max
    /\ range_min \notin occupied

\* =================================================================
\* Properties of run_timed_http_server (checked under SpecServer and
\* FairSpecServer)
\* =================================================================
\* No connection has arrived and no interrupt has been delivered
Quiet == arrived = 0 /\ interruptedAt = ""
Ended == spc \in {"done", "raised"}

\* C7: once the server is Listening, if no connection arrives and no interrupt
\* is delivered it eventually reaches Closed; it got there by the first wait
\* timing out: the flag is true, nothing was handled, and the timeout message
\* and only it was echoed.
C7_TimeoutCloses ==
    /\ []((Quiet /\ Ended /\ serror = "") =>
            /\ spc = "done"
            /\ timeout_reached
            /\ handled = 0
            /\ out = <<TimeoutMsg>>
            /\ Life = "Closed")
    /\ (Life = "Listening") ~> ((Life = "Closed" /\ Ended) \/ ~Quiet)

C7_Witness ==
    /\ Quiet
    /\ spc = "done"
    /\ Life = "Closed"
    /\ out = <<TimeoutMsg>>

\* C8: an interrupt delivered while the server waits for or handles a request
\* is caught by the serve loop: the function has returned normally, the
\* server is Closed, the interrupt message and not the timeout message was
\* echoed, and nothing happens in the server afterwards.
C8_State ==
    interruptedAt \in {"wait", "handle"} =>
        /\ spc = "done"
        /\ serror = ""
        /\ Life = "Closed"
        /\ lsock = "closed"
        /\ out = <<InterruptMsg>>

C8_InterruptCaught ==
    /\ []C8_State
    /\ [][interruptedAt # "" => UNCHANGED <<srvVars, waitVars>>]_vars

C8_Witness ==
    /\ interruptedAt = "handle"
    /\ handled >= 1
    /\ spc = "done"
    /\ out = <<InterruptMsg>>

\* C9: on every path by which run_timed_http_server stops (timeout, caught
\* interrupt, a failure propagating out of request handling, a bind failure)
\* the listening socket is not held once control is back with the caller.
C9_SocketReleased ==
    Ended => lsock = "closed"

C9_Witness ==
    /\ spc = "raised"
    /\ serror = "BaseException"
    /\ lsock = "closed"
    /\ handled >= 1

\* C10: the lifecycle is Idle -> Listening -> Closed: the server starts Idle,
\* a connection is accepted or a request handled only in Listening, Listening
\* is entered only from Idle by a bind, Closed is entered only from Listening
\* or by a failed bind, and nothing changes once Closed.
C10_Step ==
    /\ (pending' < pending \/ handled' # handled \/ spc' = "handle")
          => (Life = "Listening" /\ Life' = "Listening")
    /\ (Life' = "Listening" /\ Life # "Listening")
          => (Life = "Idle" /\ lsock = "none" /\ serror' = "")
    /\ (Life' = "Closed" /\ Life # "Closed")
          => (Life = "Listening" \/ (Life = "Idle" /\ serror' = "OSError"))
    /\ Life' = "Idle" => Life = "Idle"
    /\ Life = "Closed" => UNCHANGED <<srvVars, waitVars>>

C10_Lifecycle ==
    /\ Life = "Idle"
    /\ [](spc \in {"loop", "wait", "handle"} => Life = "Listening")
    /\ [](Life = "Closed" => Ended)
    /\ [][C10_Step]_vars

C10_Witness ==
    /\ Life = "Closed"
    /\ spc = "done"
    /\ handled = 2
    /\ timeout_reached

\* C11: the timeout is per wait, not a cap on the running time: the flag is
\* set only by a wait that itself lasted the whole timeout with no connection,
\* a wait that ends with an accepted connection leaves the flag false, and a
\* wait whose own time is not yet up never ends the Listening state by
\* timeout, however much time has passed in total.
C11_Step ==
    /\ (~timeout_reached /\ timeout_reached')
          => (spc = "wait" /\ pending = 0 /\ waited >= timeout)
    /\ (spc = "wait" /\ spc' = "handle")
          => (~timeout_reached' /\ nTimeouts' = nTimeouts /\ Life' = "Listening")
    /\ (spc = "wait" /\ waited < timeout /\ interruptedAt' = "")
          => (~timeout_reached' /\ Life' = "Listening")
    /\ (spc = "wait" /\ pending > 0 /\ interruptedAt' = "")
          => (~timeout_reached' /\ Life' = "Listening")

C14_State ==
    serror = "OSError" =>
        /\ spc = "raised"
        /\ Life = "Closed"
        /\ out = <<>>
        /\ handled = 0 /\ arrived = 0 /\ inflight = {} /\ nTimeouts = 0
        /\ ~timeout_reached
        /\ fpc = "idle" /\ probed = <<>>

C14_Step ==
    /\ serror = "OSError" => UNCHANGED <<srvVars, waitVars, locVars>>
    /\ (spc = "idle" /\ spc' # "idle" /\ (address' # "0.0.0.0" \/ port' \in occupied))
          => (serror' = "OSError" /\ lsock' # "bound")

C14_BindFailurePropagates ==
    /\ []C14_State
    /\ [][C14_Step]_vars

C14_Witness ==
    /\ serror = "OSError"
    /\ spc = "raised"
    /\ address = "0.0.0.0"
    /\ port \in occupied

\* C16: the timeout flag starts false, is set only by a wait that elapsed
\* with no connection, is never reset, and once it is true no further wait
\* is started and no further request is handled; handle_timeout runs at most
\* once per server, and exactly once on a run that ends with the timeout
\* message.
C16_State ==
    /\ nTimeouts <= 1
    /\ timeout_reached <=> nTimeouts = 1
    /\ spc = "idle" => ~timeout_reached
    /\ timeout_reached => spc \in {"loop", "done"}
    /\ (\E i \in 1..Len(out) : out[i] = TimeoutMsg) => (nTimeouts = 1 /\ spc = "done")

C16_Step ==
    /\ timeout_reached => timeout_reached'
    /\ (~timeout_reached /\ timeout_reached')
          => (spc = "wait" /\ pending = 0 /\ inflight = {} /\ remaining <= 0)
    /\ timeout_reached
          => (spc' \notin {"wait", "handle"} /\ handled' = handled /\ queue' \in {queue} \cup {Append(queue, arrived + 1)})

C16_TimeoutFlag ==
    /\ ~timeout_reached
    /\ []C16_State
    /\ [][C16_Step]_vars

C16_Witness ==
    /\ spc = "done"
    /\ out = <<TimeoutMsg>>
    /\ nTimeouts = 1
    /\ handled >= 1
    /\ pending >= 1

\* C17: requests are handled one at a time in arrival order: at most one
\* request is in handling, a wait begins only when none is, the connections
\* are handled in the order they arrived, and the timeout flag is never set
\* while a request is being handled, even when the deadline of the last wait has passed.
C17_State ==
    /\ Cardinality(inflight) <= 1
    /\ inflight # {} <=> spc = "handle"
    /\ Len(handledOrder) = handled
    /\ \A i \in 1..Len(handledOrder) : handledOrder[i] = i
    /\ \A c \in inflight :
          /\ \A i \in 1..Len(handledOrder) : handledOrder[i] < c
          /\ \A i \in 1..Len(queue) : c < queue[i]
    /\ \A i \in 1..Len(queue) : \A j \in 1..Len(handledOrder) : handledOrder[j] < queue[i]

C17_Step ==
    /\ (spc' = "wait" /\ spc # "wait") => (inflight = {} /\ inflight' = {})
    /\ spc = "handle" => (timeout_reached' = timeout_reached /\ nTimeouts' = nTimeouts)
    /\ handled' # handled => (handled' = handled + 1 /\ inflight = {handled'})

C17_OneAtATime ==
    /\ []C17_State
    /\ [][C17_Step]_vars

C17_Witness ==
    /\ spc = "handle"
    /\ inflight = {2}
    /\ handledOrder = <<1>>
    /\ remaining < 0
    /\ ~timeout_reached

\* C15: a probe leaves the system unchanged: is_port_available returns false
\* exactly when a listener accepted the connection and true otherwise, no
\* step of a probe changes which ports have listeners, no probing socket is
\* open once a check has returned, at most one is open at any time, and two
\* consecutive checks of a port that had no listener both return true.
C15_State ==
    /\ psock <= 1
    /\ psock = 1 <=> fpc \in {"check", "probe"}
    /\ fpc \in {"idle", "iter", "returned", "raised"} => (psock = 0 /\ cur = <<>>)
    /\ \A i \in 1..Len(probed) : probed[i].avail <=> ~probed[i].listener
    /\ \A i \in 1..(Len(probed) - 1) :
          (probed[i].port = probed[i + 1].port /\ ~probed[i].listener
             /\ ~probed[i + 1].listener)
          => (probed[i].avail /\ probed[i + 1].avail)

C15_Step ==
    /\ (psock' # psock \/ probed' # probed) => occupied' = occupied
    /\ psock' > psock => (connected' <=> cur'[1] \in occupied)
    /\ Len(probed') > Len(probed) =>
          /\ psock' = 0
          /\ probed'[Len(probed')].port = cur[1]
          /\ probed'[Len(probed')].listener = connected

C15_ProbeLeavesNoTrace ==
    /\ []C15_State
    /\ [][C15_Step]_vars

C15_Witness ==
    /\ Len(probed) >= 2
    /\ probed[1].port = probed[2].port
    /\ probed[1].avail /\ probed[2].avail
    /\ psock = 0
    /\ fpc = "idle"

\* C19: with the sequential strategy and occupancy unchanged during the call,
\* the port returned is the lowest free port among the first
\* min(max_tries, max - min + 1) ports of the range: it lies in
\* [range_min, range_min + tries - 1], it is free and every lower port of the
\* range is occupied; when none of those ports is free no port is returned,
\* even if a port beyond them is free.
C19_Tries == Min(max_tries_arg, RangeSize)
C19_FirstPorts == range_min..(range_min + C19_Tries - 1)

C19_SequentialLowestFree ==
    (search_type = "sequential" /\ ~occChanged /\ Finished /\ ferror # "ValueError") =>
        /\ fpc = "returned" =>
              /\ result[1] \in C19_FirstPorts
              /\ result[1] \in range_min..range_max
              /\ result[1] \notin occupied
              /\ \A q \in range_min..(result[1] - 1) : q \in occupied
        /\ fpc = "returned" <=> (\E q \in C19_FirstPorts : q \notin occupied)

C19_Witness ==
    /\ search_type = "sequential" /\ ~occChanged
    /\ fpc = "returned"
    /\ max_tries_arg = 2
    /\ RangeSize = 3
    /\ result = <<range_min + 1>>
    /\ range_max \notin occupied

\* C20: every call of find_available_port, for any integers range_min,
\* range_max and max_tries, ends by returning a port of [range_min, range_max]
\* that was probed free, or with NoAvailablePortFoundError, or with
\* InvalidSearchTypeError; with a recognised strategy and an effective try
\* count of zero or less it makes no probe and raises
\* NoAvailablePortFoundError.
C20_ThreeOutcomes ==
    Finished =>
        /\ \/ /\ fpc = "returned"
              /\ ferror = ""
              /\ result[1] \in range_min..range_max
              /\ probed[Len(probed)] = [port |-> result[1], avail |-> TRUE,
                                        listener |-> FALSE]
           \/ fpc = "raised" /\ ferror = "NoAvailablePortFoundError" /\ result = <<>>
           \/ fpc = "raised" /\ ferror = "InvalidSearchTypeError" /\ result = <<>>
        /\ (search_type \in SearchTypes /\ max_tries <= 0) =>
              (probed = <<>> /\ ferror = "NoAvailablePortFoundError")

\* =================================================================
\* Properties of the quickhttp command (checked under SpecCli)
\* =================================================================
\* C12: whenever a port is supplied on the command line (any integer, 0
\* included) the port locator is bypassed: find_available_port is not called,
\* no probe is made, and the value supplied is the port passed on to the
\* server.
C12_ExplicitPortBypassesLocator ==
    (portOpt # <<>> /\ cpc # "idle") =>
        /\ fpc = "idle"
        /\ probed = <<>> /\ psock = 0
        /\ cport = portOpt
        /\ callKw # {} => callPort = portOpt

\* C13: a run with a parsable time expression and a port resolved goes: time
\* resolved, port obtained, startup message echoed, then the timed server is
\* run with that port, the directory and the timeout and is entered; "Server
\* closed." comes only after the server has ended.
C13_RunOrder ==
    /\ callKw # {} => (timeOk /\ time_sec # <<>> /\ cport # <<>> /\ out # <<>>
                        /\ out[1] = StartMsg /\ callPort = cport)
    /\ (timeOk /\ callKw # {}) => (CallBinds(callKw) /\ cerror = "" /\ cpc = "serving")
    /\ (\E i \in 1..Len(out) : out[i] = ClosedMsg) => spc \in {"done", "raised"}

====
